---- MODULE Spec2Model ----
(***************************************************************************)
(* The request gateway of backend/server.js: an Express application that   *)
(* proxies POST /api/analyze to an upstream LLM provider behind a CORS     *)
(* origin guard and a fixed-window rate limiter (express-rate-limit with   *)
(* its in-memory store).                                                   *)
(*                                                                         *)
(* Node runs every callback to completion, so one request is handled in    *)
(* two atomic steps: Receive (the middleware chain and the handler up to   *)
(* its `await fetch`) and UpstreamReply (the rest of the handler).         *)
(* Requests overlap while they wait for the upstream.                      *)
(***************************************************************************)
EXTENDS Integers, Sequences, FiniteSets, TLC

VARIABLES
    now,      \* Date.now(), in milliseconds
    env,      \* process.env, fixed when the process starts
    store,    \* the limiter's MemoryStore: client key -> {totalHits, resetTime}
    req,      \* the requests being served and the responses sent, per connection
    win,      \* history: per client, the window of the spec's fixed-window counter
    admissions,  \* history: per client, the requests admitted at each clock step
    ui        \* the React state of the assessment page in one browser

vars == <<now, env, store, req, win, admissions, ui>>

\* the state of the server
server == <<now, env, store, req, win, admissions>>

----------------------------------------------------------------------------
(* Bounds of the model *)

\* requests the busy client may put through the limiter within one window
MaxHits == 11
\* requests any other client may put through the limiter within one window
OtherHits == 1
\* requests put through the limiter where the whole gateway is explored
WideHits == 2
\* analyses one page may have under way at a time
MaxInFlight == 2
\* clock steps per rate-limit window
TicksPerWindow == 2
\* clock steps explored
MaxTicks == 2

Slots == {1, 2}
Clients == {"ip1", "ip2"}

----------------------------------------------------------------------------
(* Configuration and constants of server.js *)

\* rateLimit({ windowMs: 15 * 60 * 1000, ... })
windowMs == 15 * 60 * 1000
\* rateLimit({ max: 10, ... })
max == 10

TickMs == windowMs \div TicksPerWindow
MaxNow == MaxTicks * TickMs

\* an environment variable that is not set (or is empty): falsy in JavaScript
Unset == ""
\* a header or body field that the client did not send
NoOrigin == "<no origin>"
NoProvider == "<no provider>"
\* the JSON array ["claude"] sent as provider
ArrayClaude == "[claude]"
\* JavaScript's undefined, as the result of a property lookup
Undefined == [name |-> "undefined", model |-> "undefined", envKey |-> "undefined",
              input |-> 0, output |-> 0]

FrontendUrl == "https://app.example.com"

allowedOrigins ==
    {"https://godagoo.github.io", "http://localhost:3000", "http://127.0.0.1:3000"}
        \cup (IF env.FRONTEND_URL = Unset THEN {} ELSE {env.FRONTEND_URL})

\* costPer1M is kept in cents per million tokens
PROVIDERS ==
    [claude |->
        [name |-> "Claude (Direct)", model |-> "claude-sonnet-4-20250514",
         envKey |-> "ANTHROPIC_API_KEY", input |-> 300, output |-> 1500],
     openrouter_claude |->
        [name |-> "Claude (via OpenRouter)", model |-> "anthropic/claude-sonnet-4",
         envKey |-> "OPENROUTER_API_KEY", input |-> 300, output |-> 1500],
     openrouter_gpt4 |->
        [name |-> "GPT-4 Turbo (via OpenRouter)", model |-> "openai/gpt-4-turbo",
         envKey |-> "OPENROUTER_API_KEY", input |-> 1000, output |-> 3000],
     openrouter_haiku |->
        [name |-> "Claude Haiku (via OpenRouter)", model |-> "anthropic/claude-3.5-haiku",
         envKey |-> "OPENROUTER_API_KEY", input |-> 80, output |-> 400]]

\* Object.keys(PROVIDERS), in insertion order
ProviderKeys == <<"claude", "openrouter_claude", "openrouter_gpt4", "openrouter_haiku">>

\* members every object literal inherits from Object.prototype
ObjectPrototypeKeys == {"constructor", "toString", "hasOwnProperty", "__proto__"}

\* what an inherited member looks like to the handler: a truthy value that has
\* none of a descriptor's fields
Inherited == [name |-> "Object", model |-> "undefined", envKey |-> "undefined",
              input |-> 0, output |-> 0]

----------------------------------------------------------------------------
(* JavaScript helpers *)

\* the property key a value is converted to: an array of one string is that string
ToPropertyKey(v) == IF v = ArrayClaude THEN "claude" ELSE v

IsString(v) == v # ArrayClaude

\* PROVIDERS[provider]: own properties first, then the prototype chain
Lookup(provider) ==
    LET key == ToPropertyKey(provider)
    IN  IF key \in DOMAIN PROVIDERS THEN PROVIDERS[key]
        ELSE IF key \in ObjectPrototypeKeys THEN Inherited
        ELSE Undefined

\* process.env[name]
EnvGet(name) == IF name \in DOMAIN env THEN env[name] ELSE Unset

\* String.prototype.startsWith('openrouter_'), over the provider ids of the model
StartsWithOpenrouter(v) ==
    v \in {"openrouter_claude", "openrouter_gpt4", "openrouter_haiku"}

RECURSIVE Join(_, _)
\* Array.prototype.join
Join(s, sep) ==
    IF Len(s) = 0 THEN ""
    ELSE IF Len(s) = 1 THEN s[1]
    ELSE s[1] \o sep \o Join(Tail(s), sep)

\* the request bodies of the model, by what express.json() and the destructuring
\* `const { responses } = req.body` make of them
Bodies == {"malformed",         \* not JSON: express.json() fails
           "no_responses",      \* {"invalid": "data"}: responses is undefined
           "responses_string",  \* {"responses": "text"}
           "responses_array",   \* {"responses": []}
           "responses_empty",   \* {"responses": {}}
           "responses_ok"}      \* {"responses": {"industry": ["saas"]}}

\* !responses
Falsy(body) == body = "no_responses"

\* typeof responses
TypeOf(body) ==
    CASE body = "no_responses" -> "undefined"
      [] body = "responses_string" -> "string"
      [] OTHER -> "object"

----------------------------------------------------------------------------
(* Requests and responses *)

Paths == {"POST /api/analyze", "GET /api/analyze", "GET /health",
          "GET /api/providers", "GET /unknown"}

\* app.use('/api/analyze', limiter) mounts the limiter for every method
UnderAnalyze(path) == path \in {"POST /api/analyze", "GET /api/analyze"}

Origins == {NoOrigin, "https://godagoo.github.io", FrontendUrl, "https://evil.example"}

ProviderInputs == {NoProvider, "claude", "openrouter_gpt4", "openrouter_haiku",
                   "nonexistent", "constructor", ArrayClaude}

\* no answer of the upstream (yet)
NoReply == [kind |-> "", status |-> 0, errMessage |-> "", text |-> "",
            usage |-> FALSE, tokensIn |-> 0, tokensOut |-> 0]

\* a connection on which no request has arrived yet
NoRequest ==
    [pc |-> "free", client |-> "", path |-> "", origin |-> "", body |-> "",
     provider |-> "", ran |-> <<>>, log |-> <<>>, fetches |-> 0,
     status |-> 0, error |-> "", message |-> "", retryAfter |-> -1,
     success |-> FALSE, analysis |-> "", tokensIn |-> 0, tokensOut |-> 0,
     tokensTotal |-> 0, costIn |-> 0, costOut |-> 0, costTotal |-> 0,
     available |-> [k \in DOMAIN PROVIDERS |-> "false"],
     sent |-> 0, reply |-> NoReply]

NewRequest(c, path, origin, body, provider) ==
    [NoRequest EXCEPT !.pc = "received", !.client = c, !.path = path,
                      !.origin = origin, !.body = body, !.provider = provider]

\* a stage of the chain has run for the request
Ran(r, stage) == [r EXCEPT !.ran = Append(@, stage)]

\* console.log / console.error
Log(r, line) == [r EXCEPT !.log = Append(@, line)]

\* res.status(status).json({ error, message })
Respond(r, status, error, message) ==
    [r EXCEPT !.pc = "done", !.status = status, !.error = error, !.message = message,
              !.sent = @ + 1]

\* the final error-handling middleware
ErrorHandler(r, errMessage) ==
    Respond(Log(Ran(r, "errorHandler"), "Server error"), 500, "Internal server error",
            IF env.NODE_ENV = "development" THEN errMessage
            ELSE "An unexpected error occurred")

\* the 404 middleware
NotFound(r) ==
    Respond(Ran(r, "notFound"), 404, "Not found", "Endpoint " \o r.path \o " not found")

----------------------------------------------------------------------------
(* Origin guard: the cors() origin callback *)

\* OriginAllowed, if the callback forgot the requests that carry no origin
OriginAllowedListed(origin) == origin \in allowedOrigins

OriginAllowed(origin) == origin = NoOrigin \/ origin \in allowedOrigins

----------------------------------------------------------------------------
(* Rate limiter: express-rate-limit with its MemoryStore, keyed by req.ip *)

\* a key the store holds nothing for
NoClient == [totalHits |-> 0, resetTime |-> 0]

\* Increment, if the windows of all clients followed one another on the clock
IncrementAligned(st, key, t) ==
    LET client == IF st[key] = NoClient \/ st[key].resetTime <= t
                  THEN [totalHits |-> 0,
                        resetTime |-> (t \div windowMs + 1) * windowMs]
                  ELSE st[key]
    IN  [st EXCEPT ![key] = [client EXCEPT !.totalHits = @ + 1]]

\* MemoryStore.increment(key): a missing or expired entry starts a new window
Increment(st, key, t) ==
    LET client == IF st[key] = NoClient \/ st[key].resetTime <= t
                  THEN [totalHits |-> 0, resetTime |-> t + windowMs]
                  ELSE st[key]
    IN  [st EXCEPT ![key] = [client EXCEPT !.totalHits = @ + 1]]

\* OverLimit, if the comparison were off by one, either way
OverLimitAtMax(totalHits) == totalHits >= max

OverLimitOffByOne(totalHits) == totalHits > max + 1

\* the limiter rejects once the hits of the window exceed max
OverLimit(totalHits) == totalHits > max

\* RetryAfterSeconds, if the header always announced a whole window
RetryAfterWholeWindow(resetTime, t) == (windowMs + 999) \div 1000

\* the Retry-After header, in seconds: ceil((resetTime - now) / 1000), at least 0
RetryAfterSeconds(resetTime, t) ==
    IF resetTime <= t THEN 0 ELSE (resetTime - t + 999) \div 1000

\* the limiter's handler: status 429 with the configured message (whose
\* retryAfter text is fixed) and the Retry-After header
TooManyRequests(r, client, t) ==
    [Respond(r, 429, "Too many requests from this IP, please try again later.",
             "15 minutes")
        EXCEPT !.retryAfter = RetryAfterSeconds(client.resetTime, t)]

----------------------------------------------------------------------------
(* What the upstream provider may answer to one fetch *)

ReportBody == "Report body"
\* a 2xx body without the path the handler reads (data.content / data.choices)
NoContent == "<no content>"
\* a 2xx body whose value at that path is not a string
NotAString == "<not a string>"
\* a 2xx body whose content[0] (choices[0].message) has no text (content) member
NoText == "<no text>"
\* the variable analysisText when no branch assigned it
UndefinedText == "<undefined>"

\* the usage member of a 2xx body: the counts of the provider, no usage member
\* at all, or a count that is not a natural number
UsageData == {[usage |-> TRUE, tokensIn |-> 500, tokensOut |-> 800],
              [usage |-> FALSE, tokensIn |-> 0, tokensOut |-> 0],
              [usage |-> TRUE, tokensIn |-> -1, tokensOut |-> 800]}

UpstreamReplies ==
    \* fetch rejects: DNS failure, connection reset
    {[kind |-> "network", status |-> 0, errMessage |-> "", text |-> "",
      usage |-> FALSE, tokensIn |-> 0, tokensOut |-> 0]}
    \cup
    \* a non-2xx status, with or without a parseable error.message
    {[kind |-> "http", status |-> st, errMessage |-> m, text |-> "",
      usage |-> FALSE, tokensIn |-> 0, tokensOut |-> 0] :
        st \in {401, 529}, m \in {"", "Overloaded"}}
    \cup
    \* a 2xx status whose body is not JSON
    {[kind |-> "not_json", status |-> 200, errMessage |-> "", text |-> "",
      usage |-> FALSE, tokensIn |-> 0, tokensOut |-> 0]}
    \cup
    \* a 2xx status with a JSON body and its usage data
    {[kind |-> "ok", status |-> 200, errMessage |-> "", text |-> t,
      usage |-> u.usage, tokensIn |-> u.tokensIn, tokensOut |-> u.tokensOut] :
        t \in {ReportBody, NoContent, NotAString, NoText}, u \in UsageData}

----------------------------------------------------------------------------
(* The handler of POST /api/analyze *)

\* Catch, if the block only logged the error
CatchSilently(r, errMessage) ==
    [Log(Ran(r, "catch"), "Analysis error") EXCEPT !.pc = "done"]

\* the catch block
Catch(r, errMessage) ==
    Respond(Log(Ran(r, "catch"), "Analysis error"), 500, "Analysis failed",
            IF errMessage = "" THEN "An unexpected error occurred" ELSE errMessage)

\* Succeed, if every request were priced as the default provider
SucceedClaudePrices(r, providerConfig, analysisText, inputTokens, outputTokens) ==
    [Log(Ran(Ran(r, "cost"), "respond"), "Request completed successfully")
        EXCEPT !.pc = "done", !.status = 200, !.success = TRUE, !.sent = @ + 1,
               !.analysis = analysisText,
               !.tokensIn = inputTokens, !.tokensOut = outputTokens,
               !.tokensTotal = inputTokens + outputTokens,
               !.costIn = inputTokens * PROVIDERS.claude.input,
               !.costOut = outputTokens * PROVIDERS.claude.output,
               !.costTotal = inputTokens * PROVIDERS.claude.input
                                + outputTokens * PROVIDERS.claude.output]

\* the cost estimate and the success response; costs are tokens * cents per
\* million tokens, that is, in units of 1e-8 USD
Succeed(r, providerConfig, analysisText, inputTokens, outputTokens) ==
    [Log(Ran(Ran(r, "cost"), "respond"), "Request completed successfully")
        EXCEPT !.pc = "done", !.status = 200, !.success = TRUE, !.sent = @ + 1,
               !.analysis = analysisText,
               !.tokensIn = inputTokens, !.tokensOut = outputTokens,
               !.tokensTotal = inputTokens + outputTokens,
               !.costIn = inputTokens * providerConfig.input,
               !.costOut = outputTokens * providerConfig.output,
               !.costTotal = inputTokens * providerConfig.input
                                + outputTokens * providerConfig.output]

\* await fetch(providerConfig.apiUrl, ...): the request waits for the upstream
Fetch(r) == [Ran(r, "dispatch") EXCEPT !.pc = "upstream", !.fetches = @ + 1]

\* ConfigurationError, if the message named the missing variable
ConfigurationErrorNamesKey(r, providerConfig) ==
    Respond(Log(r, "Missing API key for provider"), 500, "Configuration error",
            "Missing " \o providerConfig.envKey)

\* the answer when process.env has no key for the provider
ConfigurationError(r, providerConfig) ==
    Respond(Log(r, "Missing API key for provider"), 500, "Configuration error",
            "Server is not properly configured. Please contact administrator.")

\* the handler from its first line to the first await (or to its response)
AnalyzeStart(r) ==
    LET provider == IF r.provider = NoProvider THEN "claude" ELSE r.provider
        providerConfig == Lookup(provider)
        apiKey == EnvGet(providerConfig.envKey)
        r1 == Ran(r, "validate")
        r2 == Ran(r1, "lookup")
        r3 == Ran(r2, "credential")
    IN  IF Falsy(r.body) \/ TypeOf(r.body) # "object"
        THEN Respond(r1, 400, "Invalid request", "Missing or invalid responses object")
        ELSE IF providerConfig = Undefined
        THEN Respond(r2, 400, "Invalid provider",
                     "Provider must be one of: " \o Join(ProviderKeys, ", "))
        ELSE IF apiKey = Unset
        THEN ConfigurationError(r3, providerConfig)
        ELSE LET r4 == Log(r3, "Processing request with provider")
             IN  IF IsString(provider) /\ provider = "claude" THEN Fetch(r4)
                 ELSE IF ~IsString(provider)
                 THEN Catch(r4, "provider.startsWith is not a function")
                 ELSE IF StartsWithOpenrouter(provider) THEN Fetch(r4)
                 ELSE Succeed(r4, providerConfig, UndefinedText, 0, 0)

\* data.usage?.input_tokens || 0: a missing usage, a missing count and a count
\* of zero give 0, every other value is kept as it is
OrZero(usage, count) == IF usage /\ count # 0 THEN count ELSE 0

\* AnalyzeFinish, if an upstream error were followed by a second call
AnalyzeFinishRetries(r, up) ==
    LET provider == IF r.provider = NoProvider THEN "claude" ELSE r.provider
        providerConfig == Lookup(provider)
        r0 == [r EXCEPT !.reply = up]
        r1 == Ran(r0, "normalize")
    IN  CASE up.kind = "network" -> Catch(r0, "fetch failed")
          [] up.kind = "http" /\ r.fetches < 2 -> Fetch(r0)
          [] up.kind = "http" /\ r.fetches >= 2 ->
                Catch(r0, IF up.errMessage # "" THEN up.errMessage
                          ELSE "API error: " \o ToString(up.status))
          [] up.kind = "not_json" -> Catch(r0, "Unexpected token in JSON")
          [] up.kind = "ok" /\ up.text = NoContent ->
                Catch(r1, "Cannot read properties of undefined")
          [] OTHER ->
                Succeed(r1, providerConfig,
                        IF up.text = NoText THEN UndefinedText ELSE up.text,
                        OrZero(up.usage, up.tokensIn), OrZero(up.usage, up.tokensOut))

\* the handler from the upstream's answer to its response
AnalyzeFinish(r, up) ==
    LET provider == IF r.provider = NoProvider THEN "claude" ELSE r.provider
        providerConfig == Lookup(provider)
        r0 == [r EXCEPT !.reply = up]
        r1 == Ran(r0, "normalize")
    IN  CASE up.kind = "network" -> Catch(r0, "fetch failed")
          [] up.kind = "http" ->
                Catch(r0, IF up.errMessage # "" THEN up.errMessage
                          ELSE "API error: " \o ToString(up.status))
          [] up.kind = "not_json" -> Catch(r0, "Unexpected token in JSON")
          [] up.kind = "ok" /\ up.text = NoContent ->
                Catch(r1, "Cannot read properties of undefined")
          [] OTHER ->
                Succeed(r1, providerConfig,
                        IF up.text = NoText THEN UndefinedText ELSE up.text,
                        OrZero(up.usage, up.tokensIn), OrZero(up.usage, up.tokensOut))

----------------------------------------------------------------------------
(* The middleware chain, in the order of its app.use calls *)

\* Available, if the list carried the variable instead of its truth value
AvailableRaw(config) == EnvGet(config.envKey)

\* available: !!process.env[config.envKey], as JSON renders it
Available(config) == IF EnvGet(config.envKey) # Unset THEN "true" ELSE "false"

\* app.get('/health'), app.get('/api/providers'), app.post('/api/analyze'),
\* and the 404 middleware for everything else
Route(r) ==
    CASE r.path = "GET /health" ->
            Respond(Ran(r, "health"), 200, "", "healthy")
      [] r.path = "GET /api/providers" ->
            [Respond(Ran(r, "providers"), 200, "", "providers")
                EXCEPT !.available = [k \in DOMAIN PROVIDERS |-> Available(PROVIDERS[k])]]
      [] r.path = "POST /api/analyze" -> AnalyzeStart(r)
      [] OTHER -> NotFound(r)

\* the request logging middleware
Logger(r) == Route(Log(Ran(r, "logger"), "request"))

\* the limiter: it counts the request, then rejects it or lets it pass
Limiter(r, st, t) ==
    LET counted == Increment(st, r.client, t)
        client == counted[r.client]
    IN  [store |-> counted,
         res |-> IF OverLimit(client.totalHits)
                 THEN TooManyRequests(Ran(r, "limiter"), client, t)
                 ELSE Logger(Ran(r, "limiter"))]

\* Chain, if the limiter were mounted before cors()
ChainLimiterFirst(r, st, t) ==
    IF r.body = "malformed"
    THEN [store |-> st, res |-> ErrorHandler(Ran(r, "json"), "Unexpected token in JSON")]
    ELSE LET counted == IF UnderAnalyze(r.path) THEN Increment(st, r.client, t) ELSE st
             r1 == IF UnderAnalyze(r.path) THEN Ran(Ran(r, "json"), "limiter")
                   ELSE Ran(r, "json")
         IN  IF UnderAnalyze(r.path) /\ OverLimit(counted[r.client].totalHits)
             THEN [store |-> counted,
                   res |-> TooManyRequests(r1, counted[r.client], t)]
             ELSE IF ~OriginAllowed(r.origin)
             THEN [store |-> counted,
                   res |-> ErrorHandler(Ran(r1, "cors"), "Not allowed by CORS")]
             ELSE [store |-> counted, res |-> Logger(Ran(r1, "cors"))]

\* helmet(), express.json(), cors(), the limiter and the rest, for request r,
\* store st and time t: the request as it is left, and the store
Chain(r, st, t) ==
    IF r.body = "malformed"
    THEN [store |-> st, res |-> ErrorHandler(Ran(r, "json"), "Unexpected token in JSON")]
    ELSE IF ~OriginAllowed(r.origin)
    THEN [store |-> st,
          res |-> ErrorHandler(Ran(Ran(r, "json"), "cors"), "Not allowed by CORS")]
    ELSE IF UnderAnalyze(r.path)
    THEN Limiter(Ran(Ran(r, "json"), "cors"), st, t)
    ELSE [store |-> st, res |-> Logger(Ran(Ran(r, "json"), "cors"))]

----------------------------------------------------------------------------
(* History of the fixed-window counter, as the specification words it: a    *)
(* window starts with the first request of a client and with the first      *)
(* request made once windowMs have passed since the window's start.         *)

NoWindow == [start |-> 0 - windowMs, n |-> 0, admitted |-> 0]

WindowElapsed(w, t) == t - w.start >= windowMs

Counted(w, t) ==
    IF WindowElapsed(w, t) THEN [start |-> t, n |-> 1, admitted |-> 0]
    ELSE [w EXCEPT !.n = @ + 1]

(* History of the admissions, kept only where a specification switches it on *)

\* the clock steps of the model, and the step of a time
Steps == 0..MaxTicks

StepOf(t) == t \div TickMs

NoAdmissions(on) == [on |-> on, at |-> [c \in Clients |-> [k \in Steps |-> 0]]]

Recorded(h, c, t) == [h EXCEPT !.at[c][StepOf(t)] = @ + 1]

----------------------------------------------------------------------------
(* Actions *)

\* the stage has run for the request
Reached(r, stage) == \E i \in 1..Len(r.ran) : r.ran[i] = stage

\* a request arrives on connection s and is served up to its response or to
\* its upstream call
Receive(s, c, path, origin, body, provider) ==
    LET out == Chain(NewRequest(c, path, origin, body, provider), store, now)
        limited == Reached(out.res, "limiter")
        w == IF limited THEN Counted(win[c], now) ELSE win[c]
    IN  /\ req[s].pc \in {"free", "done"}
        /\ \A t \in Slots : t < s => req[t].pc = "upstream"
        /\ req' = [req EXCEPT ![s] = out.res]
        /\ store' = out.store
        /\ win' = [win EXCEPT ![c] = IF limited /\ Reached(out.res, "logger")
                                     THEN [w EXCEPT !.admitted = @ + 1]
                                     ELSE w]
        /\ admissions' = IF admissions.on /\ limited /\ Reached(out.res, "logger")
                         THEN Recorded(admissions, c, now)
                         ELSE admissions
        /\ UNCHANGED <<now, env, ui>>

\* the upstream answers the fetch of the request on connection s
UpstreamReply(s, up) ==
    /\ req[s].pc = "upstream"
    /\ req' = [req EXCEPT ![s] = AnalyzeFinish(req[s], up)]
    /\ UNCHANGED <<now, env, store, win, admissions, ui>>

\* time passes
Tick ==
    /\ now + TickMs <= MaxNow
    /\ now' = now + TickMs
    /\ UNCHANGED <<env, store, req, win, admissions, ui>>

\* the store's timer drops entries whose window is over
ClearExpired ==
    /\ \E c \in Clients : store[c] # NoClient /\ store[c].resetTime <= now
    /\ store' = [c \in Clients |->
                    IF store[c].resetTime <= now THEN NoClient ELSE store[c]]
    /\ UNCHANGED <<now, env, req, win, admissions, ui>>

----------------------------------------------------------------------------
(* The assessment page: src/AIBusinessAssessmentEnhanced.jsx *)

\* the type of each entry of the questions array, in its order
QuestionTypes == <<"single", "multiple", "single", "multiple", "multiple", "multiple",
                   "multiple", "multiple", "single", "single", "single">>

\* questions.length
NumQuestions == Len(QuestionTypes)

\* the option values of a question that the model's user clicks
Options == {"a", "b"}

\* responses[id] of a question never answered (undefined), of a single-choice
\* question (a value) and of a multiple-choice question (an array)
NoAnswer == [defined |-> FALSE, values |-> {}]

Answer(values) == [defined |-> TRUE, values |-> values]

\* what the fetch of analyzeWithClaude may end with
Outcomes == {"success", "http_error", "no_success", "network"}

\* the useState initial values; inflight counts the calls of analyzeWithClaude
\* that wait for their fetch, overlapped remembers that two of them overlapped
InitialUi ==
    [currentStep |-> 0, responses |-> [q \in 1..NumQuestions |-> NoAnswer],
     loading |-> FALSE, analysis |-> "", showReport |-> FALSE,
     analysisMetadata |-> "null", inflight |-> 0, overlapped |-> FALSE]

\* questions[currentStep], as an index into QuestionTypes
CurrentQuestion(u) == u.currentStep + 1

IsLastStep(u) == u.currentStep = NumQuestions - 1

\* CanProceed, if an emptied selection counted as an answer
CanProceedDefined(u) == u.responses[CurrentQuestion(u)].defined

CanProceed(u) ==
    LET currentResponse == u.responses[CurrentQuestion(u)]
    IN  IF QuestionTypes[CurrentQuestion(u)] = "multiple"
        THEN currentResponse.defined /\ currentResponse.values # {}
        ELSE currentResponse.defined

\* the updater of handleResponse
HandleResponseUpdate(prev, q, value, isMultiple) ==
    IF isMultiple
    THEN LET current == prev[q].values
         IN  IF value \in current
             THEN [prev EXCEPT ![q] = Answer(current \ {value})]
             ELSE [prev EXCEPT ![q] = Answer(current \cup {value})]
    ELSE [prev EXCEPT ![q] = Answer({value})]

\* the questionnaire is on screen: the component did not return the report view
FormShown(u) == ~u.showReport

\* the options of the current question are rendered only while not loading
HandleResponse(value) ==
    /\ FormShown(ui) /\ ~ui.loading
    /\ ui' = [ui EXCEPT !.responses =
                HandleResponseUpdate(@, CurrentQuestion(ui), value,
                                     QuestionTypes[CurrentQuestion(ui)] = "multiple")]
    /\ UNCHANGED server

\* the Previous button: disabled on the first question only
Previous ==
    /\ FormShown(ui) /\ ui.currentStep # 0
    /\ ui' = [ui EXCEPT !.currentStep = IF @ - 1 > 0 THEN @ - 1 ELSE 0]
    /\ UNCHANGED server

\* the Next button: rendered on every step but the last, disabled by !canProceed
NextStep ==
    /\ FormShown(ui) /\ ~IsLastStep(ui) /\ CanProceed(ui)
    /\ ui' = [ui EXCEPT !.currentStep = @ + 1]
    /\ UNCHANGED server

\* the Generate My Report button: analyzeWithClaude up to its await
Generate ==
    /\ FormShown(ui) /\ IsLastStep(ui) /\ CanProceed(ui)
    /\ ui.inflight < MaxInFlight
    /\ ui' = [ui EXCEPT !.loading = TRUE, !.inflight = @ + 1,
                        !.overlapped = @ \/ ui.inflight > 0]
    /\ UNCHANGED server

\* AnalysisFailed, if the catch block only logged the error
AnalysisFailedSilently(u) == [u EXCEPT !.analysis = "error"]

\* the catch block of analyzeWithClaude
AnalysisFailed(u) == [u EXCEPT !.analysis = "error", !.showReport = TRUE]

\* analyzeWithClaude from the answer of its fetch to its end
AnalysisCompletes(outcome) ==
    /\ ui.inflight > 0
    /\ LET settled == IF outcome = "success"
                      THEN [ui EXCEPT !.analysis = "report",
                                      !.analysisMetadata = "metadata",
                                      !.showReport = TRUE]
                      ELSE AnalysisFailed(ui)
       IN  ui' = [settled EXCEPT !.loading = FALSE, !.inflight = @ - 1]
    /\ UNCHANGED server

\* the Start New Assessment button of the report view
StartNewAssessment ==
    /\ ui.showReport
    /\ ui' = [ui EXCEPT !.showReport = FALSE, !.currentStep = 0,
                        !.responses = [q \in 1..NumQuestions |-> NoAnswer]]
    /\ UNCHANGED server

----------------------------------------------------------------------------
(* Specifications *)

\* the environments explored: every combination of the two credentials in a
\* production deployment, and a development and a bare deployment with both
Production == [ANTHROPIC_API_KEY |-> "sk-ant-1", OPENROUTER_API_KEY |-> "sk-or-1",
               NODE_ENV |-> "production", FRONTEND_URL |-> FrontendUrl,
               RATE_LIMIT_MAX_REQUESTS |-> Unset, RATE_LIMIT_WINDOW_MS |-> Unset]

Environments ==
    {[Production EXCEPT !.ANTHROPIC_API_KEY = a, !.OPENROUTER_API_KEY = o] :
        a \in {Unset, "sk-ant-1"}, o \in {Unset, "sk-or-1"}}
    \cup {[Production EXCEPT !.NODE_ENV = "development"],
          [Production EXCEPT !.FRONTEND_URL = Unset]}

\* the limiter has counted fewer than budget requests of client c this window
WithinBudget(c, budget) ==
    store[c] = NoClient \/ store[c].resetTime <= now \/ store[c].totalHits < budget

InitState ==
    /\ now = 0
    /\ store = [c \in Clients |-> NoClient]
    /\ req = [s \in Slots |-> NoRequest]
    /\ win = [c \in Clients |-> NoWindow]
    /\ admissions \in {NoAdmissions(FALSE), NoAdmissions(TRUE)}
    /\ ui = InitialUi

\* The whole gateway, one request at a time from one client: every path,
\* origin, body and provider of the model, under every environment.
Init == InitState /\ env \in Environments /\ ~admissions.on

Next ==
    \/ \E path \in Paths, origin \in Origins, body \in Bodies,
          provider \in ProviderInputs :
            /\ path # "POST /api/analyze" =>
                    provider = NoProvider /\ body \in {"malformed", "no_responses"}
            /\ WithinBudget("ip1", WideHits)
            /\ Receive(1, "ip1", path, origin, body, provider)
    \/ \E up \in UpstreamReplies : UpstreamReply(1, up)

Spec == Init /\ [][Next]_vars

\* The limiter under load: two clients, overlapping requests, passing time.
InitRate ==
    /\ InitState
    /\ env = Production
    /\ ~admissions.on

RateReplies == {up \in UpstreamReplies :
                    \/ up.kind = "ok" /\ up.text = ReportBody /\ up.tokensIn = 500
                    \/ up.kind = "http" /\ up.status = 529 /\ up.errMessage = ""}

NextRate ==
    \/ \E s \in Slots, c \in Clients, origin \in {NoOrigin, "https://evil.example"},
          body \in {"no_responses", "responses_ok"} :
            /\ WithinBudget(c, IF c = "ip1" THEN MaxHits ELSE OtherHits)
            /\ Receive(s, c, "POST /api/analyze", origin, body, NoProvider)
    \/ \E s \in Slots, up \in RateReplies : UpstreamReply(s, up)
    \/ Tick
    \/ ClearExpired

SpecRate == InitRate /\ [][NextRate]_vars

\* The gateway in front of an upstream that may stay silent: valid requests
\* of one client, and a clock that keeps running. Only the upstream's answer
\* (or the runtime's rejection of the fetch) continues a waiting handler, and
\* nothing obliges either to come.
NextSilent ==
    \/ \E s \in Slots, provider \in {NoProvider, "openrouter_haiku"} :
            /\ WithinBudget("ip1", WideHits)
            /\ Receive(s, "ip1", "POST /api/analyze", NoOrigin, "responses_ok", provider)
    \/ \E s \in Slots, up \in UpstreamReplies : UpstreamReply(s, up)
    \/ Tick

SpecSilent == InitRate /\ [][NextSilent]_vars /\ WF_vars(Tick)

\* The limiter alone, for one client over the explored time: requests that
\* pass or fail at the limiter and end without an upstream call, in a
\* deployment as shipped and in one whose environment asks for a limit of one
\* request per window.
InitBurst ==
    /\ InitState
    /\ env \in {Production, [Production EXCEPT !.RATE_LIMIT_MAX_REQUESTS = "1"]}
    /\ admissions.on

NextBurst ==
    \/ /\ WithinBudget("ip1", MaxHits)
       /\ Receive(1, "ip1", "POST /api/analyze", NoOrigin, "no_responses", NoProvider)
    \/ Tick
    \/ ClearExpired

SpecBurst == InitBurst /\ [][NextBurst]_vars

\* The questionnaire: every click on the options of a multiple-choice
\* question and on the first option of a single-choice question, on Previous
\* and on Next.
InitPage ==
    /\ InitState
    /\ env = Production
    /\ ~admissions.on

NextForm ==
    \/ \E value \in Options :
            /\ QuestionTypes[CurrentQuestion(ui)] = "single" => value = "a"
            /\ HandleResponse(value)
    \/ Previous
    \/ NextStep

SpecForm == InitPage /\ [][NextForm]_vars

\* The analysis and the report view: a user who answers each question once
\* and then generates reports, with every outcome of the fetch.
NextReport ==
    \/ ~ui.responses[CurrentQuestion(ui)].defined /\ HandleResponse("a")
    \/ Previous
    \/ NextStep
    \/ Generate
    \/ \E outcome \in Outcomes : AnalysisCompletes(outcome)
    \/ StartNewAssessment

SpecReport == InitPage /\ [][NextReport]_vars

----------------------------------------------------------------------------
(* Properties *)

\* the connection the next request arrives on
Arriving ==
    CHOOSE s \in Slots :
        req[s].pc # "upstream" /\ \A t \in Slots : t < s => req[t].pc = "upstream"

\* the limiter let the request pass
Admitted(r) == Reached(r, "logger") /\ r.status # 429

\* C1: for every client, the N-th request of a window is admitted when
\* N <= max, the (max+1)-th request of the window is answered 429, and a
\* request made once windowMs have passed since the window's start is admitted.
C1_WindowAdmission ==
    [][\A c \in Clients : win'[c] # win[c] =>
            LET r == req'[Arriving]
            IN  /\ r.client = c
                /\ win'[c].n <= max => Admitted(r)
                /\ win'[c].n = max + 1 => r.status = 429 /\ ~Reached(r, "logger")
                /\ (win[c].n > 0 /\ now - win[c].start >= windowMs) => Admitted(r)
      ]_vars

\* a client was answered 429 and, a window later, is admitted again
C1_Witness ==
    \E c \in Clients, s1, s2 \in Slots :
        /\ req[s1].client = c /\ req[s1].status = 429
        /\ req[s2].client = c /\ Admitted(req[s2])
        /\ win[c].n = 1 /\ win[c].start >= windowMs

\* C2: whatever the interleaving of overlapping requests of one client, no
\* more than max of its requests are admitted within one window.
C2_AtMostMaxAdmitted == \A c \in Clients : win[c].admitted <= max

\* two requests of one client wait for the upstream at the same time, and the
\* client has used up its window
C2_Witness ==
    \E c \in Clients :
        /\ win[c].admitted = max
        /\ \A s \in Slots : req[s].pc = "upstream" /\ req[s].client = c

C5_DeniedOriginNotCounted ==
    [][\A s \in Slots :
            (/\ req[s].pc # "upstream"
             /\ req'[s] # req[s]
             /\ req'[s].origin # NoOrigin
             /\ req'[s].origin \notin allowedOrigins)
            => /\ store' = store
               /\ req'[s].status = 500
               /\ req'[s].error = "Internal server error"
               /\ ~Reached(req'[s], "limiter")
      ]_vars

\* a request of a disallowed origin was refused while a client's counter stood
\* above zero
C5_Witness ==
    \E s \in Slots :
        /\ req[s].pc = "done"
        /\ req[s].origin = "https://evil.example"
        /\ Reached(req[s], "cors")
        /\ store[req[s].client].totalHits > 0

\* the provider the handler works with: the destructuring default is 'claude'
Selected(r) == IF r.provider = NoProvider THEN "claude" ELSE r.provider

\* the origin guard refused the request
DeniedByGuard(r) ==
    Reached(r, "cors") /\ ~Reached(r, "limiter") /\ ~Reached(r, "logger")

\* C3: a POST /api/analyze whose answers are missing, not a mapping or an
\* empty mapping is answered 400, and no upstream call is made for it.
C3_InvalidAnswersRejected ==
    \A s \in Slots :
        (/\ req[s].path = "POST /api/analyze"
         /\ Reached(req[s], "validate")
         /\ req[s].body \in {"no_responses", "responses_string",
                             "responses_array", "responses_empty"})
        => /\ req[s].status = 400
           /\ req[s].fetches = 0

\* C4: a POST /api/analyze with well-formed answers whose provider is present
\* and is not an id of the registry is answered 400 with the list of the valid
\* ids, without a credential lookup or an upstream call.
C4_UnknownProviderRejected ==
    \A s \in Slots :
        (/\ Reached(req[s], "lookup")
         /\ req[s].body = "responses_ok"
         /\ req[s].provider # NoProvider
         /\ req[s].provider \notin {ProviderKeys[i] : i \in 1..Len(ProviderKeys)})
        => /\ req[s].status = 400
           /\ req[s].message =
                "Provider must be one of: claude, openrouter_claude, openrouter_gpt4, openrouter_haiku"
           /\ ~Reached(req[s], "credential")
           /\ req[s].fetches = 0

\* C6: the origin guard lets a request pass exactly when it declares no origin
\* or its origin equals an entry of the configured allow-list; a request it
\* refuses reaches neither the handler nor an upstream.
C6_OriginGuard ==
    \A s \in Slots : Reached(req[s], "cors") =>
        LET r == req[s]
            listed == \/ r.origin \in {"https://godagoo.github.io",
                                       "http://localhost:3000",
                                       "http://127.0.0.1:3000"}
                      \/ env.FRONTEND_URL # Unset /\ r.origin = env.FRONTEND_URL
        IN  /\ ~DeniedByGuard(r) <=> (r.origin = NoOrigin \/ listed)
            /\ DeniedByGuard(r) =>
                    /\ r.pc = "done" /\ ~r.success
                    /\ ~Reached(r, "validate")
                    /\ r.fetches = 0

\* the frontend's origin is refused where FRONTEND_URL is not configured
C6_Witness ==
    \E s \in Slots :
        /\ req[s].origin = FrontendUrl
        /\ env.FRONTEND_URL = Unset
        /\ DeniedByGuard(req[s])
        /\ req[s].pc = "done"

\* C7: a request the origin guard refuses is answered with a client error
\* (400 or 403) and a generic message.
C7_DeniedIsClientError ==
    \A s \in Slots : DeniedByGuard(req[s]) =>
        /\ req[s].status \in {400, 403}
        /\ req[s].message \in {"An unexpected error occurred", "Not allowed by CORS"}

\* C8: a non-2xx answer of the upstream to a well-formed request is surfaced
\* as 502, with the upstream's message when there is one and a generic message
\* with the upstream's status otherwise, and never as a success.
C8_UpstreamErrorIs502 ==
    \A s \in Slots : req[s].reply.kind = "http" /\ req[s].body = "responses_ok" =>
        /\ req[s].status = 502
        /\ ~req[s].success
        /\ req[s].message = IF req[s].reply.errMessage # ""
                            THEN req[s].reply.errMessage
                            ELSE "API error: " \o ToString(req[s].reply.status)

\* C10: when the environment holds no credential for the selected provider,
\* the request ends with 500 and one fixed message, and no upstream call.
C10_MissingCredential ==
    \A s \in Slots :
        LET r == req[s]
            key == ToPropertyKey(Selected(r))
        IN  (/\ Reached(r, "credential")
             /\ key \in DOMAIN PROVIDERS
             /\ env[PROVIDERS[key].envKey] = Unset)
            => /\ r.pc = "done"
               /\ r.status = 500
               /\ r.error = "Configuration error"
               /\ r.message =
                    "Server is not properly configured. Please contact administrator."
               /\ r.fetches = 0
               /\ ~Reached(r, "dispatch")

\* an OpenRouter provider is selected where only the Anthropic key is set
C10_Witness ==
    \E s \in Slots :
        /\ req[s].provider = "openrouter_haiku"
        /\ env.OPENROUTER_API_KEY = Unset
        /\ env.ANTHROPIC_API_KEY # Unset
        /\ Reached(req[s], "credential")
        /\ req[s].status = 500

\* C11: where the environment holds no credential for the default provider
\* ('claude'), no GET /health is answered with status healthy.
C11_NotHealthyWithoutDefaultCredential ==
    \A s \in Slots :
        (/\ env.ANTHROPIC_API_KEY = Unset
         /\ req[s].path = "GET /health"
         /\ Reached(req[s], "health"))
        => req[s].message # "healthy"

\* C12: every GET /health with a well-formed (or no) body is answered 200,
\* whatever its Origin header, the credentials and the limiter's counters.
C12_HealthAlways200 ==
    \A s \in Slots :
        (/\ req[s].path = "GET /health"
         /\ req[s].body # "malformed"
         /\ req[s].pc = "done")
        => req[s].status = 200

\* C13: in every success response the input and output costs are the token
\* counts times the per-million prices of the selected provider's descriptor
\* (here in units of 1e-8 USD: tokens * cents per million), the total cost is
\* their sum and the total token count is the sum of the two counts.
C13_CostFormula ==
    \A s \in Slots : req[s].success =>
        LET r == req[s]
            key == ToPropertyKey(Selected(r))
        IN  /\ key \in DOMAIN PROVIDERS
            /\ r.costIn = r.tokensIn * PROVIDERS[key].input
            /\ r.costOut = r.tokensOut * PROVIDERS[key].output
            /\ r.costTotal = r.costIn + r.costOut
            /\ r.tokensTotal = r.tokensIn + r.tokensOut
            /\ (r.tokensIn = 0 /\ r.tokensOut = 0) => r.costTotal = 0

\* GPT-4 Turbo served 500 input and 800 output tokens at 10 / 30 USD per
\* million: 0.005 + 0.024 = 0.029 USD
C13_Witness ==
    \E s \in Slots :
        /\ req[s].success
        /\ req[s].provider = "openrouter_gpt4"
        /\ req[s].tokensIn = 500 /\ req[s].tokensOut = 800
        /\ req[s].costIn = 500000 /\ req[s].costOut = 2400000
        /\ req[s].costTotal = 2900000
        /\ req[s].tokensTotal = 1300

\* C14: a 2xx answer of the upstream to a well-formed request whose text is
\* missing or is not a string ends in a failure, and every success response
\* carries a string as its analysis.
C14_TextMustBeString ==
    \A s \in Slots :
        LET r == req[s]
        IN  /\ (/\ r.body = "responses_ok"
                /\ r.reply.kind = "ok"
                /\ r.reply.text \in {NoContent, NoText, NotAString})
               => ~r.success /\ r.status = 500
            /\ (r.body = "responses_ok" /\ r.success) => r.analysis = ReportBody

\* C15: every success response to a well-formed request carries token counts
\* that are natural numbers, whatever usage the upstream reported, and both
\* are zero when the upstream reported no usage; a missing usage alone never
\* fails the request.
C15_TokenCountsNatural ==
    \A s \in Slots :
        LET r == req[s]
        IN  (r.body = "responses_ok" /\ r.reply.kind = "ok" /\ r.reply.text = ReportBody)
            => /\ r.success
               /\ r.tokensIn \in Nat /\ r.tokensOut \in Nat
               /\ ~r.reply.usage => r.tokensIn = 0 /\ r.tokensOut = 0

\* the stages of the specification's pipeline, numbered in its order; reading
\* the payload belongs to the request validator
StageRank(stage) ==
    CASE stage = "cors" -> 1
      [] stage = "limiter" -> 2
      [] stage \in {"json", "validate", "lookup"} -> 3
      [] stage = "credential" -> 4
      [] stage = "dispatch" -> 5
      [] stage = "normalize" -> 6
      [] stage = "cost" -> 7
      [] stage = "respond" -> 8
      [] OTHER -> 0

\* C16: for every answered POST /api/analyze the stages ran in the order
\* origin guard, rate limiter, request validator, credential check,
\* dispatcher, normalizer, cost meter, assembler; a request of a disallowed
\* origin is decided by the origin guard, and a request refused for its
\* payload was counted by the rate limiter before.
C16_FirstFailingStageDecides ==
    \A s \in Slots :
        LET r == req[s]
        IN  (r.path = "POST /api/analyze" /\ r.pc = "done") =>
                /\ \A i, j \in 1..Len(r.ran) :
                        (i < j /\ StageRank(r.ran[i]) > 0 /\ StageRank(r.ran[j]) > 0)
                            => StageRank(r.ran[i]) <= StageRank(r.ran[j])
                /\ ~OriginAllowed(r.origin) => DeniedByGuard(r)
                /\ (OriginAllowed(r.origin)
                        /\ r.body \in {"malformed", "no_responses", "responses_string"})
                    => Reached(r, "limiter")

\* C17: no request causes more than one outbound call, and the answer of the
\* upstream, whatever it is, ends the request.
C17_AtMostOneUpstreamCall ==
    \A s \in Slots :
        /\ req[s].fetches <= 1
        /\ req[s].reply # NoReply => req[s].pc = "done" /\ req[s].fetches = 1
        /\ req[s].pc = "upstream" => req[s].fetches = 1

\* an upstream error was answered to the client after one call
C17_Witness ==
    \E s \in Slots :
        /\ req[s].reply.kind = "http"
        /\ req[s].pc = "done"
        /\ req[s].status = 500
        /\ req[s].fetches = 1

\* C18: every request that was dispatched to the upstream is eventually
\* answered, even if the upstream never answers.
C18_DispatchedEventuallyAnswered ==
    \A s \in Slots : (req[s].pc = "upstream") ~> (req[s].pc = "done")

\* C19: a well-formed request that ends in an exception thrown by the handler itself (no
\* answer of an upstream is involved) is answered 500 with one fixed message,
\* whatever the exception says.
C19_InternalFailureOpaque ==
    \A s \in Slots :
        (/\ req[s].body = "responses_ok"
         /\ Reached(req[s], "catch")
         /\ req[s].reply = NoReply)
        => /\ req[s].status = 500
           /\ req[s].message = "An unexpected error occurred"

\* the lines the server writes when a request ends
CompletionLines == {"Request completed successfully", "Analysis error",
                    "Server error", "Missing API key for provider"}

\* C20: for every answered POST /api/analyze, whatever its outcome, the log
\* holds exactly one line written at its completion, and it is the last line.
C20_LoggedOnceAtCompletion ==
    \A s \in Slots :
        LET r == req[s]
        IN  (r.path = "POST /api/analyze" /\ r.pc = "done") =>
                /\ Cardinality({i \in 1..Len(r.log) : r.log[i] \in CompletionLines}) = 1
                /\ r.log[Len(r.log)] \in CompletionLines

\* the values of the provider credentials of the environment
CredentialValues == {env.ANTHROPIC_API_KEY, env.OPENROUTER_API_KEY} \ {Unset}

C22_ValidationFailureIs4xx ==
    \A s \in Slots :
        LET r == req[s]
        IN  (/\ r.path = "POST /api/analyze"
             /\ r.pc = "done"
             /\ OriginAllowed(r.origin)
             /\ \/ r.body \in {"malformed", "no_responses"}
                \/ r.body = "responses_ok" /\ r.provider = "nonexistent")
            => r.status \in 400..499

\* C23: where the environment sets RATE_LIMIT_MAX_REQUESTS to 1, no identity
\* has more than one request admitted within a window (and where it sets
\* nothing, no more than ten).
C23_ConfiguredMaximum ==
    \A c \in Clients :
        win[c].admitted <= IF env.RATE_LIMIT_MAX_REQUESTS = "1" THEN 1 ELSE 10

RECURSIVE AdmittedIn(_, _, _)
\* the requests of client c admitted at the clock steps a..b
AdmittedIn(c, a, b) ==
    IF a > b THEN 0
    ELSE (IF a \in Steps THEN admissions.at[c][a] ELSE 0) + AdmittedIn(c, a + 1, b)

AlignedAdmitted(c, t) ==
    LET first == (t \div windowMs) * TicksPerWindow
    IN  AdmittedIn(c, first, first + TicksPerWindow - 1)

C26_DispatchByDescriptor ==
    \A s \in Slots :
        LET r == req[s]
            providerConfig == Lookup(Selected(r))
        IN  (/\ r.body = "responses_ok"
             /\ r.pc = "done"
             /\ Reached(r, "credential")
             /\ \E k \in DOMAIN PROVIDERS : providerConfig = PROVIDERS[k]
             /\ EnvGet(providerConfig.envKey) # Unset)
            => /\ Reached(r, "dispatch")
               /\ r.fetches = 1

\* C27: every POST /api/analyze that has been handled to its end was sent
\* exactly one response, and none was sent while it waits for the upstream.
C27_ExactlyOneResponse ==
    \A s \in Slots :
        LET r == req[s]
        IN  r.path = "POST /api/analyze" =>
                /\ r.pc = "done" => r.sent = 1 /\ r.status # 0
                /\ r.pc = "upstream" => r.sent = 0

\* a request ended in the catch block after the upstream's error
C27_Witness ==
    \E s \in Slots :
        /\ req[s].path = "POST /api/analyze"
        /\ req[s].reply.kind = "network"
        /\ Reached(req[s], "catch")
        /\ req[s].pc = "done" /\ req[s].sent = 1

\* C24: every call of analyzeWithClaude that ends, whatever the outcome of
\* its fetch, leaves loading false and the report view shown, with the report
\* or the error text in it.
C24_CompletionShowsReport ==
    [][ui'.inflight < ui.inflight =>
            /\ ~ui'.loading
            /\ ui'.showReport
            /\ ui'.analysis \in {"report", "error"}
      ]_vars

\* an analysis failed and the report view shows the error text
C24_Witness ==
    /\ ui.showReport /\ ~ui.loading
    /\ ui.analysis = "error"
    /\ ui.inflight = 0
    /\ ui.analysisMetadata = "null"

\* C28: at most one analysis is under way, and while one is, the page shows
\* the loading state on the last question.
C28_AtMostOneInFlight ==
    /\ ui.inflight <= 1
    /\ ui.inflight > 0 => ui.loading /\ ui.currentStep = NumQuestions - 1

\* C29: when the report view shows the error text of a failed analysis (and
\* no two analyses ever overlapped), analysisMetadata is null.
C29_ErrorWithoutMetadata ==
    (ui.showReport /\ ui.analysis = "error" /\ ~ui.overlapped)
        => ui.analysisMetadata = "null"

\* a question has an answer that is defined and not empty
Answered(u, q) == u.responses[q].defined /\ u.responses[q].values # {}

\* the Generate My Report button is rendered and enabled
GenerateEnabled(u) == FormShown(u) /\ IsLastStep(u) /\ CanProceed(u)

\* C30: currentStep stays within 0..questions.length-1, every question before
\* the current one is answered, and whenever Generate My Report can be
\* clicked all eleven questions are answered.
C30_AnsweredBeforeCurrent ==
    /\ ui.currentStep \in 0..(NumQuestions - 1)
    /\ \A q \in 1..NumQuestions : q < CurrentQuestion(ui) => Answered(ui, q)
    /\ GenerateEnabled(ui) =>
            /\ NumQuestions = 11
            /\ \A q \in 1..NumQuestions : Answered(ui, q)

\* the user stands on the last question with the report button enabled,
\* after selecting two options of the second question
C30_Witness ==
    /\ GenerateEnabled(ui)
    /\ ui.responses[2].values = {"a", "b"}

====
